---- MODULE Spec2Model ----
(***************************************************************************)
(* Model of the mcp-mem0 auto-memory server (src/src/auto_memory.py) and   *)
(* of the validation / sanitisation helpers it uses (src/src/validators.py)*)
(*                                                                         *)
(* A Python str is modelled as a Text: a sequence of blocks [s, n], the    *)
(* block standing for the character sequence s repeated n times, so that   *)
(* texts of 10,000 characters stay small.  Characters are symbols; the     *)
(* null character is the symbol "NUL".                                     *)
(***************************************************************************)
EXTENDS Integers, Sequences, FiniteSets, TLC

\* ------------------------------------------------------------------ text

NUL == "NUL"

\* The characters str.split(), str.strip() and the regex class \s treat as
\* whitespace (the ones that can occur in the modelled inputs).
Whitespace == {" ", "\t", "\n", "\r", "\f"}

UpperCase == <<"A","B","C","D","E","F","G","H","I","J","K","L","M",
               "N","O","P","Q","R","S","T","U","V","W","X","Y","Z">>
LowerCase == <<"a","b","c","d","e","f","g","h","i","j","k","l","m",
               "n","o","p","q","r","s","t","u","v","w","x","y","z">>
Digits == {"0","1","2","3","4","5","6","7","8","9"}

\* re.IGNORECASE: characters are compared after case folding.
Lower(c) ==
    IF \E i \in 1..26 : UpperCase[i] = c
    THEN LowerCase[CHOOSE i \in 1..26 : UpperCase[i] = c]
    ELSE c

\* The regex class \w.
IsWord(c) ==
    \/ \E i \in 1..26 : LowerCase[i] = Lower(c)
    \/ c \in Digits
    \/ c = "_"

IsSpace(c) == c \in Whitespace

\* One block of n copies of the character sequence s.
Blk(s, n) == [s |-> s, n |-> n]

\* The text of a character sequence, one block per character.
Lit(chars) == [i \in 1..Len(chars) |-> Blk(<<chars[i]>>, 1)]

\* The text of n copies of the character c.
Rep(c, n) == IF n = 0 THEN <<>> ELSE <<Blk(<<c>>, n)>>

\* len(text)
RECURSIVE TextLen(_)
TextLen(t) ==
    IF t = <<>> THEN 0 ELSE Len(t[1].s) * t[1].n + TextLen(Tail(t))

\* The characters of a text, in order.
RECURSIVE Flat(_)
Flat(t) ==
    IF t = <<>> THEN <<>>
    ELSE LET b == t[1]
             k == Len(b.s)
         IN [i \in 1..(k * b.n) |-> b.s[((i - 1) % k) + 1]] \o Flat(Tail(t))

\* text.strip() == "": every character is whitespace.
IsBlank(t) ==
    \A i \in 1..Len(t) : \A k \in 1..Len(t[i].s) : IsSpace(t[i].s[k])

\* A block is pure when it holds no whitespace, or copies of one whitespace
\* character only.
PureBlock(b) ==
    \/ \A k \in 1..Len(b.s) : ~IsSpace(b.s[k])
    \/ \A k \in 1..Len(b.s) : IsSpace(b.s[k]) /\ b.s[k] = b.s[1]

\* The same text with every block pure (a mixed block is written out
\* character by character).
RECURSIVE Pure(_)
Pure(t) ==
    IF t = <<>> THEN <<>>
    ELSE IF PureBlock(t[1]) THEN <<t[1]>> \o Pure(Tail(t))
    ELSE Lit(Flat(<<t[1]>>)) \o Pure(Tail(t))

WsBlock(b) == \A k \in 1..Len(b.s) : IsSpace(b.s[k])

\* ------------------------------------------------------------- constants

MAX_MEMORY_SIZE == 10000
MIN_MEMORY_SIZE == 1
MAX_QUERY_LENGTH == 500
MAX_SEARCH_LIMIT == 100

ERROR_EMPTY_MEMORY == "Cannot save empty memory"
ERROR_MEMORY_TOO_LARGE == "Memory content too large (max 10000 characters)"
ERROR_TOO_SHORT == "Memory content too short (minimum 1 character)"
ERROR_SUSPICIOUS == "Memory content contains suspicious patterns"
ERROR_CONVERSATION_TOO_LARGE == "Conversation too large to save"
ERROR_EMPTY_QUERY == "Search query cannot be empty"
ERROR_QUERY_TOO_LONG == "Query too long (maximum 500 characters)"
ERROR_QUERY_INVALID == "Query contains invalid characters"
ERROR_LIMIT_TYPE == "Limit must be an integer"
ERROR_LIMIT_TOO_SMALL == "Limit must be at least 1"
ERROR_LIMIT_TOO_LARGE == "Limit cannot exceed 100"

\* Python's None (the absent error of a validation result).
None == "None"

\* ------------------------------------------------------------ validators

\* re.search of a literal pattern p (lower case), ignoring case.
LitAt(f, i, p) ==
    /\ i + Len(p) - 1 <= Len(f)
    /\ \A k \in 1..Len(p) : Lower(f[i + k - 1]) = p[k]

HasLit(f, p) == \E i \in 1..Len(f) : LitAt(f, i, p)

\* re.search of p \s* c : the literal p, any whitespace, the character c.
HasLitSpaceChar(f, p, c) ==
    \E i \in 1..Len(f) :
        /\ LitAt(f, i, p)
        /\ \E m \in (i + Len(p))..Len(f) :
              /\ f[m] = c
              /\ \A k \in (i + Len(p))..(m - 1) : IsSpace(f[k])

\* re.search of on\w+\s*= .
HasEventHandler(f) ==
    \E i \in 1..Len(f) :
        /\ LitAt(f, i, <<"o", "n">>)
        /\ \E j \in (i + 2)..Len(f) :
              /\ \A k \in (i + 2)..j : IsWord(f[k])
              /\ \E m \in (j + 1)..Len(f) :
                    /\ f[m] = "="
                    /\ \A k \in (j + 1)..(m - 1) : IsSpace(f[k])

\* A screen that flags the name of an event handler without an assignment,
\* and "javascript" without a colon.
contains_suspicious_names(text) ==
    LET f == Flat(text) IN
    \/ HasLit(f, <<"<", "s", "c", "r", "i", "p", "t">>)
    \/ HasLit(f, <<"j", "a", "v", "a", "s", "c", "r", "i", "p", "t">>)
    \/ \E i \in 1..(Len(f) - 2) : LitAt(f, i, <<"o", "n">>) /\ IsWord(f[i + 2])
    \/ HasLitSpaceChar(f, <<"e", "v", "a", "l">>, "(")
    \/ HasLitSpaceChar(f, <<"e", "x", "p", "r", "e", "s", "s", "i", "o", "n">>, "(")

contains_suspicious_patterns(text) ==
    LET f == Flat(text) IN
    \/ HasLit(f, <<"<", "s", "c", "r", "i", "p", "t">>)
    \/ HasLit(f, <<"j", "a", "v", "a", "s", "c", "r", "i", "p", "t", ":">>)
    \/ HasEventHandler(f)
    \/ HasLitSpaceChar(f, <<"e", "v", "a", "l">>, "(")
    \/ HasLitSpaceChar(f, <<"e", "x", "p", "r", "e", "s", "s", "i", "o", "n">>, "(")

\* A validation result (is_valid, error).
Valid == [is_valid |-> TRUE, error |-> <<None>>]
Invalid(parts) == [is_valid |-> FALSE, error |-> parts]

\* A validation that screens the patterns before it checks the length.
validate_patterns_first(content) ==
    IF TextLen(content) = 0 \/ IsBlank(content)
    THEN Invalid(<<ERROR_EMPTY_MEMORY>>)
    ELSE IF contains_suspicious_patterns(content)
    THEN Invalid(<<ERROR_SUSPICIOUS>>)
    ELSE IF TextLen(content) > MAX_MEMORY_SIZE
    THEN Invalid(<<ERROR_MEMORY_TOO_LARGE>>)
    ELSE Valid

validate_memory_content(content) ==
    IF TextLen(content) = 0 \/ IsBlank(content)
    THEN Invalid(<<ERROR_EMPTY_MEMORY>>)
    ELSE IF TextLen(content) < MIN_MEMORY_SIZE
    THEN Invalid(<<ERROR_TOO_SHORT>>)
    ELSE IF TextLen(content) > MAX_MEMORY_SIZE
    THEN Invalid(<<ERROR_MEMORY_TOO_LARGE>>)
    ELSE IF contains_suspicious_patterns(content)
    THEN Invalid(<<ERROR_SUSPICIOUS>>)
    ELSE Valid

\* A conversation validation whose combined limit is that of one message.
validate_conversation_single_limit(user_message, assistant_message) ==
    LET u == validate_memory_content(user_message)
        a == validate_memory_content(assistant_message)
    IN IF ~u.is_valid THEN Invalid(<<"User message: ">> \o u.error)
       ELSE IF ~a.is_valid THEN Invalid(<<"Assistant message: ">> \o a.error)
       ELSE IF TextLen(user_message) + TextLen(assistant_message)
                 > MAX_MEMORY_SIZE
       THEN Invalid(<<ERROR_CONVERSATION_TOO_LARGE>>)
       ELSE Valid

\* A conversation validation that looks at the assistant message first.
validate_assistant_first(user_message, assistant_message) ==
    LET u == validate_memory_content(user_message)
        a == validate_memory_content(assistant_message)
    IN IF ~a.is_valid THEN Invalid(<<"Assistant message: ">> \o a.error)
       ELSE IF ~u.is_valid THEN Invalid(<<"User message: ">> \o u.error)
       ELSE IF TextLen(user_message) + TextLen(assistant_message)
                 > MAX_MEMORY_SIZE * 2
       THEN Invalid(<<ERROR_CONVERSATION_TOO_LARGE>>)
       ELSE Valid

validate_conversation_data(user_message, assistant_message) ==
    LET u == validate_memory_content(user_message)
        a == validate_memory_content(assistant_message)
    IN IF ~u.is_valid THEN Invalid(<<"User message: ">> \o u.error)
       ELSE IF ~a.is_valid THEN Invalid(<<"Assistant message: ">> \o a.error)
       ELSE IF TextLen(user_message) + TextLen(assistant_message)
                 > MAX_MEMORY_SIZE * 2
       THEN Invalid(<<ERROR_CONVERSATION_TOO_LARGE>>)
       ELSE Valid

\* f[a..b] holds whitespace only (\s* when the range is empty).
SpaceRun(f, a, b) == \A k \in a..b : IsSpace(f[k])
\* f[a..b] holds word characters only.
WordRun(f, a, b) == \A k \in a..b : IsWord(f[k])
\* f[a..b] holds digits only.
DigitRun(f, a, b) == \A k \in a..b : f[k] \in Digits

\* re.search of p \s+ q : the literal p, some whitespace, the literal q.
HasLitSpacesLit(f, p, q) ==
    \E i \in 1..Len(f) :
        /\ LitAt(f, i, p)
        /\ \E j \in (i + Len(p) + 1)..Len(f) :
              /\ SpaceRun(f, i + Len(p), j - 1)
              /\ LitAt(f, j, q)

DestructiveKeywords ==
    { <<"d", "r", "o", "p">>, <<"d", "e", "l", "e", "t", "e">>,
      <<"t", "r", "u", "n", "c", "a", "t", "e">>, <<"a", "l", "t", "e", "r">>,
      <<"c", "r", "e", "a", "t", "e">> }

\* re.search of ;\s*(DROP|DELETE|TRUNCATE|ALTER|CREATE)\s+
HasTerminatedStatement(f) ==
    \E i \in 1..Len(f) :
        /\ f[i] = ";"
        /\ \E j \in (i + 1)..Len(f) :
              /\ SpaceRun(f, i + 1, j - 1)
              /\ \E kw \in DestructiveKeywords :
                    /\ LitAt(f, j, kw)
                    /\ j + Len(kw) <= Len(f)
                    /\ IsSpace(f[j + Len(kw)])

\* re.search of --\s*$
HasTrailingComment(f) ==
    \E i \in 1..Len(f) :
        /\ LitAt(f, i, <<"-", "-">>)
        /\ SpaceRun(f, i + 2, Len(f))

\* re.search of '\s*OR\s*'?\d*'\s*=\s*'?\d*  (what follows the = may be empty)
HasTautology(f) ==
    \E i \in 1..Len(f) :
        /\ f[i] = "'"
        /\ \E j \in (i + 1)..Len(f) :
              /\ SpaceRun(f, i + 1, j - 1)
              /\ LitAt(f, j, <<"o", "r">>)
              /\ \E k \in (j + 2)..Len(f) :
                    /\ SpaceRun(f, j + 2, k - 1)
                    /\ \E q \in {k, k + 1} :
                          /\ q = k + 1 => f[k] = "'"
                          /\ \E r \in q..Len(f) :
                                /\ DigitRun(f, q, r - 1)
                                /\ f[r] = "'"
                                /\ \E e \in (r + 1)..Len(f) :
                                      /\ SpaceRun(f, r + 1, e - 1)
                                      /\ f[e] = "="

\* re.search of UPDATE\s+\w+\s+SET
HasUpdateSet(f) ==
    \E i \in 1..Len(f) :
        /\ LitAt(f, i, <<"u", "p", "d", "a", "t", "e">>)
        /\ \E j \in (i + 7)..Len(f) :
              /\ SpaceRun(f, i + 6, j - 1)
              /\ \E k \in (j + 1)..Len(f) :
                    /\ WordRun(f, j, k - 1)
                    /\ \E m \in (k + 1)..Len(f) :
                          /\ SpaceRun(f, k, m - 1)
                          /\ LitAt(f, m, <<"s", "e", "t">>)

\* A screen that flags the bare keywords as well.
contains_sql_keywords(text) ==
    LET f == Flat(text) IN
    \/ HasTerminatedStatement(f)
    \/ HasTrailingComment(f)
    \/ HasTautology(f)
    \/ HasLit(f, <<"s", "e", "l", "e", "c", "t">>)
    \/ HasLit(f, <<"i", "n", "s", "e", "r", "t">>)
    \/ HasLit(f, <<"u", "p", "d", "a", "t", "e">>)
    \/ HasLit(f, <<"c", "r", "e", "a", "t", "e">>)

contains_sql_patterns(text) ==
    LET f == Flat(text) IN
    \/ HasTerminatedStatement(f)
    \/ HasTrailingComment(f)
    \/ HasTautology(f)
    \/ HasLitSpacesLit(f, <<"u", "n", "i", "o", "n">>,
                          <<"s", "e", "l", "e", "c", "t">>)
    \/ HasLitSpacesLit(f, <<"i", "n", "s", "e", "r", "t">>, <<"i", "n", "t", "o">>)
    \/ HasUpdateSet(f)

\* A query validation that screens the markup patterns as well.
validate_query_screening_markup(query) ==
    IF TextLen(query) = 0 \/ IsBlank(query)
    THEN Invalid(<<ERROR_EMPTY_QUERY>>)
    ELSE IF TextLen(query) > MAX_QUERY_LENGTH
    THEN Invalid(<<ERROR_QUERY_TOO_LONG>>)
    ELSE IF contains_sql_patterns(query) \/ contains_suspicious_patterns(query)
    THEN Invalid(<<ERROR_QUERY_INVALID>>)
    ELSE Valid

validate_search_query(query) ==
    IF TextLen(query) = 0 \/ IsBlank(query)
    THEN Invalid(<<ERROR_EMPTY_QUERY>>)
    ELSE IF TextLen(query) > MAX_QUERY_LENGTH
    THEN Invalid(<<ERROR_QUERY_TOO_LONG>>)
    ELSE IF contains_sql_patterns(query)
    THEN Invalid(<<ERROR_QUERY_INVALID>>)
    ELSE Valid

\* A value given as a limit: its Python type and, for a number, its value
\* (a bool is an int in Python: True is 1, False is 0).
PyValue(t, v) == [t |-> t, v |-> v]

\* A limit validation whose upper bound is exclusive.
validate_limit_exclusive(limit) ==
    IF limit.t \notin {"int", "bool"}
    THEN Invalid(<<ERROR_LIMIT_TYPE>>)
    ELSE IF limit.v < 1
    THEN Invalid(<<ERROR_LIMIT_TOO_SMALL>>)
    ELSE IF limit.v >= MAX_SEARCH_LIMIT
    THEN Invalid(<<ERROR_LIMIT_TOO_LARGE>>)
    ELSE Valid

validate_limit(limit) ==
    IF limit.t \notin {"int", "bool"}
    THEN Invalid(<<ERROR_LIMIT_TYPE>>)
    ELSE IF limit.v < 1
    THEN Invalid(<<ERROR_LIMIT_TOO_SMALL>>)
    ELSE IF limit.v > MAX_SEARCH_LIMIT
    THEN Invalid(<<ERROR_LIMIT_TOO_LARGE>>)
    ELSE Valid

\* Python passes any value where a str is expected.  None and a str written
\* as values, and a call that ended by raising an exception.
PyNone == PyValue("NoneType", 0)
PyText(text) == PyValue("str", text)
Raised(exception) == [raised |-> exception]
HasRaised(outcome) == "raised" \in DOMAIN outcome

\* bool(value): None, "" and 0 are false.
Truthy(value) ==
    CASE value.t = "NoneType" -> FALSE
      [] value.t = "str" -> TextLen(value.v) # 0
      [] OTHER -> value.v # 0

\* A validation that calls content.strip() before it tests `not content`.
validate_memory_content_strip_first(content) ==
    IF content.t # "str" THEN Raised("AttributeError")
    ELSE validate_memory_content(content.v)

\* validate_memory_content(content) for any value: `not content` decides
\* for a false value, before content.strip() is called; a true value
\* that is no str has no strip().
validate_memory_content_any(content) ==
    IF ~Truthy(content) THEN Invalid(<<ERROR_EMPTY_MEMORY>>)
    ELSE IF content.t # "str" THEN Raised("AttributeError")
    ELSE validate_memory_content(content.v)

\* validate_search_query(query) for any value.
validate_search_query_any(query) ==
    IF ~Truthy(query) THEN Invalid(<<ERROR_EMPTY_QUERY>>)
    ELSE IF query.t # "str" THEN Raised("AttributeError")
    ELSE validate_search_query(query.v)

\* validate_conversation_data(user_message, assistant_message) for any
\* values: len() is reached only when both sides are valid, hence str.
validate_conversation_data_any(user_message, assistant_message) ==
    LET u == validate_memory_content_any(user_message) IN
    IF HasRaised(u) THEN u
    ELSE IF ~u.is_valid THEN Invalid(<<"User message: ">> \o u.error)
    ELSE LET a == validate_memory_content_any(assistant_message) IN
         IF HasRaised(a) THEN a
         ELSE IF ~a.is_valid THEN Invalid(<<"Assistant message: ">> \o a.error)
         ELSE validate_conversation_data(user_message.v, assistant_message.v)

\* ------------------------------------------------------------- sanitizer

\* text.replace('\x00', '')
RECURSIVE RemoveNulls(_)
RemoveNulls(t) ==
    IF t = <<>> THEN <<>>
    ELSE LET s == SelectSeq(t[1].s, LAMBDA c : c # NUL)
         IN (IF s = <<>> THEN <<>> ELSE <<Blk(s, t[1].n)>>)
            \o RemoveNulls(Tail(t))

\* html.escape without its replacement of '>'.
EscapeCharKeepsGt(c) ==
    CASE c = "&"  -> <<"&", "a", "m", "p", ";">>
      [] c = "<"  -> <<"&", "l", "t", ";">>
      [] c = "\"" -> <<"&", "q", "u", "o", "t", ";">>
      [] c = "'"  -> <<"&", "#", "x", "2", "7", ";">>
      [] OTHER    -> <<c>>

\* html.escape of one character (quote=True).
EscapeChar(c) ==
    CASE c = "&"  -> <<"&", "a", "m", "p", ";">>
      [] c = "<"  -> <<"&", "l", "t", ";">>
      [] c = ">"  -> <<"&", "g", "t", ";">>
      [] c = "\"" -> <<"&", "q", "u", "o", "t", ";">>
      [] c = "'"  -> <<"&", "#", "x", "2", "7", ";">>
      [] OTHER    -> <<c>>

RECURSIVE EscapeSeq(_)
EscapeSeq(s) ==
    IF s = <<>> THEN <<>> ELSE EscapeChar(s[1]) \o EscapeSeq(Tail(s))

\* html.escape(text)
HtmlEscape(t) == [i \in 1..Len(t) |-> Blk(EscapeSeq(t[i].s), t[i].n)]

\* ' '.join(words) over pure blocks: the non-whitespace blocks between two
\* whitespace blocks form a word; `pending` says a separator is due before
\* the next word, `started` that a word has been seen.
RECURSIVE JoinWords(_, _, _)
JoinWords(t, pending, started) ==
    IF t = <<>> THEN <<>>
    ELSE IF WsBlock(t[1]) THEN JoinWords(Tail(t), started, started)
    ELSE (IF pending THEN <<Blk(<<" ">>, 1)>> ELSE <<>>)
         \o <<t[1]>> \o JoinWords(Tail(t), FALSE, TRUE)

\* ' '.join(text.split())
SplitJoin(t) == JoinWords(Pure(t), FALSE, FALSE)

\* re.sub(r'\n{3,}', '\n\n', text) over pure blocks: a run of newline
\* characters of total length n >= 3 becomes two newlines.
NewlineBlock(b) == \A k \in 1..Len(b.s) : b.s[k] = "\n"

RECURSIVE CapNewlinesFrom(_, _)
CapNewlinesFrom(t, run) ==
    LET flush == IF run = 0 THEN <<>>
                 ELSE Rep("\n", IF run >= 3 THEN 2 ELSE run)
    IN IF t = <<>> THEN flush
       ELSE IF NewlineBlock(t[1])
       THEN CapNewlinesFrom(Tail(t), run + Len(t[1].s) * t[1].n)
       ELSE flush \o <<t[1]>> \o CapNewlinesFrom(Tail(t), 0)

CapNewlines(t) == CapNewlinesFrom(Pure(t), 0)

\* text.strip()
RECURSIVE LStrip(_)
LStrip(t) ==
    IF t = <<>> THEN <<>>
    ELSE IF WsBlock(t[1]) THEN LStrip(Tail(t)) ELSE t

RECURSIVE RStrip(_)
RStrip(t) ==
    IF t = <<>> THEN <<>>
    ELSE IF WsBlock(t[Len(t)]) THEN RStrip(SubSeq(t, 1, Len(t) - 1)) ELSE t

Strip(t) == RStrip(LStrip(Pure(t)))

sanitize_text(text) ==
    IF TextLen(text) = 0 THEN <<>>
    ELSE Strip(CapNewlines(SplitJoin(HtmlEscape(RemoveNulls(text)))))

\* text[:k]
RECURSIVE Prefix(_, _)
Prefix(t, k) ==
    IF t = <<>> \/ k = 0 THEN <<>>
    ELSE LET b == t[1]
             size == Len(b.s) * b.n
         IN IF size <= k THEN <<b>> \o Prefix(Tail(t), k - size)
            ELSE LET q == k \div Len(b.s)
                     r == k % Len(b.s)
                 IN (IF q > 0 THEN <<Blk(b.s, q)>> ELSE <<>>)
                    \o (IF r > 0 THEN <<Blk(SubSeq(b.s, 1, r), 1)>> ELSE <<>>)

\* ------------------------------------------------------------ json.loads
\* The JSON values of the modelled inputs: strings without escapes, objects,
\* arrays, unsigned integers and null.  A value is [t, v]: t its Python type
\* ("str", "dict", "list", "int", "NoneType"), v its content.

JStr(chars) == [t |-> "str", v |-> chars]
JNull == [t |-> "NoneType", v |-> <<>>]

\* The outcome of parsing from position i: ok, the value, the next position.
Parsed(val, pos) == [ok |-> TRUE, val |-> val, pos |-> pos]
DecodeError == [ok |-> FALSE, val |-> JNull, pos |-> 0]

RECURSIVE SkipWs(_, _)
SkipWs(f, i) ==
    IF i <= Len(f) /\ f[i] \in {" ", "\t", "\n", "\r"} THEN SkipWs(f, i + 1) ELSE i

ExactAt(f, i, p) ==
    /\ i + Len(p) - 1 <= Len(f)
    /\ \A k \in 1..Len(p) : f[i + k - 1] = p[k]

\* The position of the quote closing the string opened at i - 1, or 0 when
\* the string is not closed or holds a raw control character.
RECURSIVE ClosingQuote(_, _)
ClosingQuote(f, i) ==
    IF i > Len(f) THEN 0
    ELSE IF f[i] \in {"\n", "\t", "\r", "\f", NUL} THEN 0
    ELSE IF f[i] = "\"" THEN i
    ELSE ClosingQuote(f, i + 1)

ParseString(f, i) ==
    LET j == ClosingQuote(f, i + 1)
    IN IF j = 0 THEN DecodeError
       ELSE Parsed(JStr(SubSeq(f, i + 1, j - 1)), j + 1)

RECURSIVE DigitsEnd(_, _)
DigitsEnd(f, i) ==
    IF i <= Len(f) /\ f[i] \in Digits THEN DigitsEnd(f, i + 1) ELSE i

ParseNumber(f, i) ==
    LET j == IF f[i] = "0" THEN i + 1 ELSE DigitsEnd(f, i)
    IN Parsed([t |-> "int", v |-> SubSeq(f, i, j - 1)], j)

RECURSIVE ParseValue(_, _)
RECURSIVE ParseMembers(_, _, _)
RECURSIVE ParseElements(_, _, _)

\* The members of an object from position i (at a key), given those read.
ParseMembers(f, i, acc) ==
    IF i > Len(f) \/ f[i] # "\"" THEN DecodeError
    ELSE LET key == ParseString(f, i)
             c == SkipWs(f, key.pos)
         IN IF ~key.ok \/ c > Len(f) \/ f[c] # ":" THEN DecodeError
            ELSE LET val == ParseValue(f, SkipWs(f, c + 1))
                     e == SkipWs(f, val.pos)
                     all == Append(acc, [k |-> key.val.v, v |-> val.val])
                 IN IF ~val.ok \/ e > Len(f) THEN DecodeError
                    ELSE IF f[e] = "}" THEN Parsed([t |-> "dict", v |-> all], e + 1)
                    ELSE IF f[e] = "," THEN ParseMembers(f, SkipWs(f, e + 1), all)
                    ELSE DecodeError

\* The elements of an array from position i (at a value), given those read.
ParseElements(f, i, acc) ==
    LET val == ParseValue(f, i)
        e == SkipWs(f, val.pos)
        all == Append(acc, val.val)
    IN IF ~val.ok \/ e > Len(f) THEN DecodeError
       ELSE IF f[e] = "]" THEN Parsed([t |-> "list", v |-> all], e + 1)
       ELSE IF f[e] = "," THEN ParseElements(f, SkipWs(f, e + 1), all)
       ELSE DecodeError

ParseValue(f, i) ==
    IF i > Len(f) THEN DecodeError
    ELSE IF f[i] = "\"" THEN ParseString(f, i)
    ELSE IF f[i] = "{" THEN
        LET j == SkipWs(f, i + 1)
        IN IF j <= Len(f) /\ f[j] = "}"
           THEN Parsed([t |-> "dict", v |-> <<>>], j + 1)
           ELSE ParseMembers(f, j, <<>>)
    ELSE IF f[i] = "[" THEN
        LET j == SkipWs(f, i + 1)
        IN IF j <= Len(f) /\ f[j] = "]"
           THEN Parsed([t |-> "list", v |-> <<>>], j + 1)
           ELSE ParseElements(f, j, <<>>)
    ELSE IF f[i] \in Digits THEN ParseNumber(f, i)
    ELSE IF ExactAt(f, i, <<"n", "u", "l", "l">>) THEN Parsed(JNull, i + 4)
    ELSE DecodeError

\* json.loads(content): one value, whitespace around it, nothing after it.
json_loads(content) ==
    LET f == Flat(content)
        val == ParseValue(f, SkipWs(f, 1))
    IN IF val.ok /\ SkipWs(f, val.pos) = Len(f) + 1 THEN val ELSE DecodeError

\* A str as a value handed on: the decoded JSON string as a Text.
PyStr(text) == [t |-> "str", v |-> text]
FromJson(val) == IF val.t = "str" THEN PyStr(Lit(val.v)) ELSE val

\* dict.get(key, default): the last member with that key wins.
DictGet(d, key, default) ==
    LET hits == {i \in 1..Len(d.v) : d.v[i].k = key}
    IN IF hits = {} THEN default
       ELSE FromJson(d.v[CHOOSE i \in hits : \A j \in hits : j <= i].v)

\* ---------------------------------------------------------------- inputs

MaxHist == 3
MaxTime == 1

DEFAULT_USER_ID == "user"

Q1 == Lit(<<"Q", "1">>)
Q2 == Lit(<<"Q", "2">>)
A1 == Lit(<<"A", "1">>)
Script == Lit(<<"<", "s", "c", "r", "i", "p", "t", ">">>)
Padded == Lit(<<" ", "Q", "1", " ", "\t", "<", "b", ">", NUL>>)
Empty == <<>>

KeyUser == <<"u", "s", "e", "r">>
KeyAssistant == <<"a", "s", "s", "i", "s", "t", "a", "n", "t">>

Quoted(chars) == <<"\"">> \o chars \o <<"\"">>
Member(key, chars) == Quoted(key) \o <<":">> \o Quoted(chars)

\* {"user":"Q1","assistant":"A1"}
PayloadBoth ==
    Lit(<<"{">> \o Member(KeyUser, <<"Q", "1">>) \o <<",", " ">>
        \o Member(KeyAssistant, <<"A", "1">>) \o <<"}">>)
\* {"user":"Q1"}
PayloadUserOnly == Lit(<<"{">> \o Member(KeyUser, <<"Q", "1">>) \o <<"}">>)
\* {}
PayloadNoFields == Lit(<<"{", "}">>)
\* ["Q1","A1"]
PayloadList ==
    Lit(<<"[">> \o Quoted(<<"Q", "1">>) \o <<",">> \o Quoted(<<"A", "1">>)
        \o <<"]">>)
\* {"user":"Q1"     (not closed)
PayloadBroken == Lit(<<"{">> \o Member(KeyUser, <<"Q", "1">>))
\* {"user":"<script>","assistant":"A1"}
PayloadScript ==
    Lit(<<"{">> \o Member(KeyUser, <<"<", "s", "c", "r", "i", "p", "t", ">">>)
        \o <<",">> \o Member(KeyAssistant, <<"A", "1">>) \o <<"}">>)

\* The roles a caller gives to a single message.
MessageRoles == {"user", "assistant", "system"}
\* The contents of single messages.
MessageContents == {Q1, Q2}
\* The contents given with the role "conversation".
Payloads == {PayloadBoth, PayloadUserOnly, PayloadNoFields, PayloadList,
             PayloadBroken, PayloadScript}
\* The texts given to save_memory.
MemoryTexts == {Padded, Script, Empty}
\* The pairs given to save_conversation_turn.
TurnPairs == {<<Padded, A1>>, <<Script, A1>>, <<Q1, Empty>>}
\* The messages of the exceptions the store raises.
StoreErrors == {"store unavailable"}

\* What the pure functions return for the inputs above, computed once.
Loaded == [content \in Payloads |-> json_loads(content)]
Sanitized ==
    [text \in MemoryTexts \cup {pair[1] : pair \in TurnPairs}
                          \cup {pair[2] : pair \in TurnPairs}
        |-> sanitize_text(text)]
MemoryChecked == [text \in MemoryTexts |-> validate_memory_content(text)]
TurnChecked ==
    [pair \in TurnPairs |-> validate_conversation_data(pair[1], pair[2])]

\* ----------------------------------------------------------------- state

VARIABLES
    chat_history,   \* Mem0Context.chat_history
    now,            \* the last value read from the clock, time.time()
    call,           \* the last tool call: its name and arguments
    before,         \* chat_history when the last tool call started
    added,          \* the mem0_client.add invocations of the last tool call
    result,         \* what the last tool call returned
    loop            \* the event loop: the calls in flight and the one running

vars == <<chat_history, now, call, before, added, result, loop>>

Message(role, content, timestamp) ==
    [role |-> role, content |-> content, timestamp |-> timestamp]

\* One invocation of mem0_client.add(messages, user_id=...).
AddCall(messages, raised) ==
    [messages |-> messages, user_id |-> DEFAULT_USER_ID, raised |-> raised]

\* A store call that is attempted again when it raises.
ForwardRetrying(messages, raised) ==
    IF raised
    THEN <<AddCall(messages, TRUE), AddCall(messages, TRUE)>>
    ELSE <<AddCall(messages, FALSE)>>

\* mem0_client.add(messages, user_id=...) as the tools call it: invoked once,
\* whether it returns or raises.
Forward(messages, raised) == <<AddCall(messages, raised)>>

\* A returned string: its fixed parts and the text it echoes.
Result(parts, text) == [parts |-> parts, text |-> text]

NoCall == [tool |-> "none", role |-> "", args |-> <<>>]

\* The event loop of calls: the calls issued, the program point each has
\* reached, the buffer each left after its append, the turn each found, and
\* the call that holds the loop (0 when none does).
Loop(calls) ==
    [ calls |-> calls,
      pc |-> [t \in DOMAIN calls |-> "start"],
      seen |-> [t \in DOMAIN calls |-> <<>>],
      turn |-> [t \in DOMAIN calls |-> <<>>],
      running |-> 0 ]

Init ==
    /\ chat_history = <<>>
    /\ now = 0
    /\ call = NoCall
    /\ before = <<>>
    /\ added = <<>>
    /\ result = Result(<<>>, <<>>)
    /\ loop = Loop(<<>>)

\* --------------------------------------------------------------- actions

\* The values int(time.time()) can return: the clock never runs backward.
ClockReadings == {t \in now..(now + 1) : t <= MaxTime}

\* The two-message unit handed to the store.
Turn(user_content, assistant_content) ==
    << [role |-> "user", content |-> user_content],
       [role |-> "assistant", content |-> assistant_content] >>

\* A scan that looks at the message before the new one only.
ScanBackOneStep(h, user_idx) ==
    IF h[Len(h) + user_idx + 1].role # "user" THEN -Len(h) - 1 ELSE user_idx

\* A scan whose loop stops on the oldest message instead of below it.
RECURSIVE ScanBackOffByOne(_, _)
ScanBackOffByOne(h, user_idx) ==
    IF user_idx > -Len(h) /\ h[Len(h) + user_idx + 1].role # "user"
    THEN ScanBackOffByOne(h, user_idx - 1)
    ELSE user_idx

\* A scan that gives up at an earlier assistant message, as if that message
\* had used up the user message before it.
RECURSIVE ScanBackUntilAssistant(_, _)
ScanBackUntilAssistant(h, user_idx) ==
    IF user_idx < -Len(h) THEN user_idx
    ELSE IF h[Len(h) + user_idx + 1].role = "assistant" THEN -Len(h) - 1
    ELSE IF h[Len(h) + user_idx + 1].role # "user"
    THEN ScanBackUntilAssistant(h, user_idx - 1)
    ELSE user_idx

\* The backward scan: from user_idx down, the first index (Python's negative
\* indexing) whose message has role "user"; below -len(h) when there is none.
RECURSIVE ScanBack(_, _)
ScanBack(h, user_idx) ==
    IF user_idx >= -Len(h) /\ h[Len(h) + user_idx + 1].role # "user"
    THEN ScanBack(h, user_idx - 1)
    ELSE user_idx

\* A buffer that takes the new message at its head.
AppendMessageAtHead(h, role, content, timestamp) ==
    <<Message(role, content, timestamp)>> \o h

\* chat_history.append(...)
AppendMessage(h, role, content, timestamp) ==
    Append(h, Message(role, content, timestamp))

\* A pairing that does not look at the role of the new message.
PairedTurnAnyRole(h, role, content) ==
    IF Len(h) >= 2
    THEN LET user_idx == ScanBack(h, -2)
         IN IF user_idx >= -Len(h)
            THEN <<Turn(PyStr(h[Len(h) + user_idx + 1].content), PyStr(content))>>
            ELSE <<>>
    ELSE <<>>

\* The turn an appended message completes, as a sequence of zero or one turn.
PairedTurn(h, role, content) ==
    IF role = "assistant" /\ Len(h) >= 2
    THEN LET user_idx == ScanBack(h, -2)
         IN IF user_idx >= -Len(h)
            THEN <<Turn(PyStr(h[Len(h) + user_idx + 1].content), PyStr(content))>>
            ELSE <<>>
    ELSE <<>>

\* A payload turn that reads the "user" field for both sides.
PayloadTurnUserTwice(conversation_data) ==
    Turn(DictGet(conversation_data, KeyUser, PyStr(<<>>)),
         DictGet(conversation_data, KeyUser, PyStr(<<>>)))

\* The turn of a parsed "conversation" payload.
PayloadTurn(conversation_data) ==
    Turn(DictGet(conversation_data, KeyUser, PyStr(<<>>)),
         DictGet(conversation_data, KeyAssistant, PyStr(<<>>)))

AttributeError(val) == <<"'", val.t, "' object has no attribute 'get'">>

\* auto_save_message(ctx, "conversation", content)
AutoSaveConversation(content, timestamp) ==
    LET parsed == Loaded[content] IN
    /\ call' = [tool |-> "auto_save_message", role |-> "conversation",
                args |-> <<content>>]
    /\ before' = chat_history
    /\ now' = timestamp
    /\ UNCHANGED <<chat_history, loop>>
    /\ IF ~parsed.ok
       THEN /\ added' = <<>>
            /\ result' = Result(<<"Error: Invalid conversation JSON format">>, <<>>)
       ELSE IF parsed.val.t # "dict"
       THEN /\ added' = <<>>
            /\ result' = Result(<<"Error auto-saving message: ">>
                                   \o AttributeError(parsed.val), <<>>)
       ELSE \E raised \in BOOLEAN :
            /\ added' = Forward(PayloadTurn(parsed.val), raised)
            /\ IF raised
               THEN \E e \in StoreErrors :
                      result' = Result(<<"Error auto-saving message: ", e>>, <<>>)
               ELSE result' = Result(
                      <<"Successfully saved conversation turn to memory">>, <<>>)

\* auto_save_message(ctx, role, content) for every other role
AutoSaveSingle(role, content, timestamp) ==
    LET h == AppendMessage(chat_history, role, content, timestamp)
        turns == PairedTurn(h, role, content)
    IN
    /\ Len(chat_history) < MaxHist
    /\ call' = [tool |-> "auto_save_message", role |-> role, args |-> <<content>>]
    /\ before' = chat_history
    /\ chat_history' = h
    /\ now' = timestamp
    /\ UNCHANGED loop
    /\ IF turns = <<>>
       THEN /\ added' = <<>>
            /\ result' = Result(<<"Successfully saved ", role,
                                  " message to memory">>, <<>>)
       ELSE \E raised \in BOOLEAN :
            /\ added' = Forward(turns[1], raised)
            /\ IF raised
               THEN \E e \in StoreErrors :
                      result' = Result(<<"Error auto-saving message: ", e>>, <<>>)
               ELSE result' = Result(<<"Successfully saved ", role,
                                       " message to memory">>, <<>>)

AutoSaveMessage ==
    \E timestamp \in ClockReadings :
        \/ \E content \in Payloads : AutoSaveConversation(content, timestamp)
        \/ \E role \in MessageRoles, content \in MessageContents :
              AutoSaveSingle(role, content, timestamp)

\* save_conversation_turn(ctx, user_message, assistant_message)
SaveConversationTurn ==
    \E pair \in TurnPairs :
    LET user_message == pair[1]
        assistant_message == pair[2]
        v == TurnChecked[pair]
    IN
    /\ call' = [tool |-> "save_conversation_turn", role |-> "",
                args |-> <<user_message, assistant_message>>]
    /\ before' = chat_history
    /\ UNCHANGED <<chat_history, now, loop>>
    /\ IF ~v.is_valid
       THEN /\ added' = <<>>
            /\ result' = Result(<<"Validation error: ">> \o v.error, <<>>)
       ELSE \E raised \in BOOLEAN :
            /\ added' = Forward(Turn(PyStr(Sanitized[user_message]),
                                     PyStr(Sanitized[assistant_message])),
                                raised)
            /\ IF raised
               THEN \E e \in StoreErrors :
                      result' = Result(<<"Error saving conversation turn: ", e>>, <<>>)
               ELSE result' = Result(
                      <<"Successfully saved conversation turn to memory">>, <<>>)

\* save_memory(ctx, text)
SaveMemory ==
    \E text \in MemoryTexts :
    LET v == MemoryChecked[text] IN
    /\ call' = [tool |-> "save_memory", role |-> "", args |-> <<text>>]
    /\ before' = chat_history
    /\ UNCHANGED <<chat_history, now, loop>>
    /\ IF ~v.is_valid
       THEN /\ added' = <<>>
            /\ result' = Result(<<"Validation error: ">> \o v.error, <<>>)
       ELSE \E raised \in BOOLEAN :
            /\ added' = Forward(<<[role |-> "user",
                                   content |-> PyStr(Sanitized[text])]>>,
                                raised)
            /\ IF raised
               THEN \E e \in StoreErrors :
                      result' = Result(<<"Error saving memory: ", e>>, <<>>)
               ELSE IF TextLen(text) > 100
               THEN result' = Result(<<"Successfully saved memory: ", "...">>,
                                     Prefix(text, 100))
               ELSE result' = Result(<<"Successfully saved memory: ">>, text)

\* A clear that drops the assistant and system messages only.
ClearKeepingUserMessages ==
    /\ call' = [tool |-> "clear_chat_history", role |-> "", args |-> <<>>]
    /\ before' = chat_history
    /\ chat_history' = SelectSeq(chat_history, LAMBDA m : m.role = "user")
    /\ added' = <<>>
    /\ result' = Result(<<"Chat history buffer cleared. Your saved memories remain intact.">>, <<>>)
    /\ UNCHANGED <<now, loop>>

\* clear_chat_history(ctx)
ClearChatHistory ==
    /\ call' = [tool |-> "clear_chat_history", role |-> "", args |-> <<>>]
    /\ before' = chat_history
    /\ chat_history' = <<>>
    /\ added' = <<>>
    /\ result' = Result(<<"Chat history buffer cleared. Your saved memories remain intact.">>, <<>>)
    /\ UNCHANGED <<now, loop>>

Next ==
    \/ AutoSaveMessage
    \/ SaveConversationTurn
    \/ SaveMemory
    \/ ClearChatHistory

Spec == Init /\ [][Next]_vars

\* ------------------------------------------------- the validators alone
\* The validators and the sanitizer are pure functions.  In this
\* specification one call of one of them is drawn at the start (`call`),
\* and the step applies the function and records what it returned
\* (`result`).

MaxLen == 3

\* The characters of the short texts.
Alphabet == {"a", " ", "\n", "<", ">", "&", NUL}

\* Every text of at most MaxLen characters over the alphabet.
ShortTexts ==
    UNION {{Lit(chars) : chars \in [1..k -> Alphabet]} : k \in 0..MaxLen}

Xs(n) == Rep("x", n)
OnClick == Lit(<<"o", "n", "C", "l", "i", "c", "k", " ", "=", "x">>)
Injection ==
    Lit(<<"'", ";", " ", "D", "R", "O", "P", " ", "T", "A", "B", "L", "E", " ",
          "u", "s", "e", "r", "s", ";", " ", "-", "-">>)
UnionSelect ==
    Lit(<<"a", " ", "U", "n", "i", "o", "n", " ", "\t", "s", "e", "l", "e", "c", "t">>)
\* "Hello\x00World"
HelloWorld ==
    Lit(<<"H", "e", "l", "l", "o", NUL, "W", "o", "r", "l", "d">>)
\* "a  b\n\n\n\nc\td"
Paragraphs ==
    Lit(<<"a", " ", " ", "b", "\n", "\n", "\n", "\n", "c", "\t", "d">>)

\* Longer texts: at the size limits, blank, pattern-flagged, to be escaped.
LongTexts ==
    { Xs(MAX_MEMORY_SIZE), Xs(MAX_MEMORY_SIZE + 1),
      Rep(" ", MAX_MEMORY_SIZE + 1),
      Script \o Xs(MAX_MEMORY_SIZE), Script \o Xs(MAX_MEMORY_SIZE - 8),
      Rep("<", MAX_MEMORY_SIZE), Rep(NUL, 2),
      Script, OnClick, Injection, UnionSelect, HelloWorld, Paragraphs, Padded }

LongQueries ==
    { Xs(MAX_QUERY_LENGTH), Xs(MAX_QUERY_LENGTH + 1),
      Rep(" ", MAX_QUERY_LENGTH + 1),
      Xs(MAX_QUERY_LENGTH - 1) \o Lit(<<"-", "-">>),
      Xs(MAX_QUERY_LENGTH - 2) \o Lit(<<"-", "-">>),
      Script, OnClick, Injection, UnionSelect, Q1 }

\* The values given as a limit.
LimitValues ==
    {PyValue("int", n) : n \in (-2)..(MAX_SEARCH_LIMIT + 2)}
    \cup {PyValue("str", 10), PyValue("float", 5),
          PyValue("bool", 0), PyValue("bool", 1)}

\* The sides of the conversations given to validate_conversation_data.
Sides ==
    { Q1, A1, Empty, Rep(" ", 2), Script, OnClick, Xs(1),
      Xs(MAX_MEMORY_SIZE), Xs(MAX_MEMORY_SIZE + 1) }

\* The character sequences of a sequence of words, one after the other,
\* with the separator (a character sequence) between two of them.
RECURSIVE Joined(_, _)
Joined(words, sep) ==
    IF words = <<>> THEN <<>>
    ELSE IF Len(words) = 1 THEN words[1]
    ELSE words[1] \o sep \o Joined(Tail(words), sep)

\* Every sequence of one to MaxLen of the given words.
WordSeqs(words) == UNION {[1..k -> words] : k \in 1..MaxLen}

SqlWords ==
    { <<"s", "e", "l", "e", "c", "t">>,
      <<"u", "p", "d", "a", "t", "e">>,
      <<"i", "n", "s", "e", "r", "t">>,
      <<"i", "n", "t", "o">>,
      <<"s", "e", "t">>,
      <<"u", "n", "i", "o", "n">>,
      <<"m", "e">> }

\* Sentences of SQL keywords and plain words, a space between two words.
SqlSentences == {Lit(Joined(ws, <<" ">>)) : ws \in WordSeqs(SqlWords)}

\* The sentences of test_safe_sql_keywords, and others that use the
\* keywords as plain words.
SafeSqlTexts ==
    { Lit(<<"I", " ", "w", "a", "n", "t", " ", "t", "o", " ", "s", "e",
            "l", "e", "c", "t", " ", "t", "h", "e", " ", "b", "e", "s",
            "t", " ", "o", "p", "t", "i", "o", "n">>),
      Lit(<<"L", "e", "t", "'", "s", " ", "c", "r", "e", "a", "t", "e",
            " ", "s", "o", "m", "e", "t", "h", "i", "n", "g", " ", "n",
            "e", "w">>),
      Lit(<<"U", "p", "d", "a", "t", "e", " ", "m", "e", " ", "o", "n",
            " ", "t", "h", "e", " ", "p", "r", "o", "g", "r", "e", "s",
            "s">>),
      Lit(<<"P", "l", "e", "a", "s", "e", " ", "i", "n", "s", "e", "r",
            "t", " ", "t", "h", "e", " ", "c", "o", "i", "n">>),
      Lit(<<"u", "n", "i", "o", "n", "s", "e", "l", "e", "c", "t">>),
      Lit(<<"d", "r", "o", "p", " ", "t", "h", "e", " ", "t", "a", "b",
            "l", "e", ";", " ", "p", "l", "e", "a", "s", "e">>),
      Lit(<<"i", "t", "'", "s", " ", "o", "r", " ", "i", "s", "n", "'",
            "t">>) }

\* The strings of test_sql_injection_patterns, and others of the same shapes.
InjectionTexts ==
    { Lit(<<"'", ";", " ", "D", "R", "O", "P", " ", "T", "A", "B", "L",
            "E", " ", "u", "s", "e", "r", "s", ";", " ", "-", "-">>),
      Lit(<<"'", " ", "O", "R", " ", "'", "1", "'", "=", "'", "1">>),
      Lit(<<"U", "N", "I", "O", "N", " ", "S", "E", "L", "E", "C", "T",
            " ", "*", " ", "F", "R", "O", "M", " ", "p", "a", "s", "s",
            "w", "o", "r", "d", "s">>),
      Lit(<<"'", ";", " ", "D", "E", "L", "E", "T", "E", " ", "F", "R",
            "O", "M", " ", "a", "c", "c", "o", "u", "n", "t", "s", ";",
            " ", "-", "-">>),
      Lit(<<"x", ";", "t", "r", "u", "n", "c", "a", "t", "e", "\t", "t">>),
      Lit(<<"w", "a", "i", "t", " ", "-", "-", " ", " ">>),
      Lit(<<"a", "'", " ", "o", "r", "'", "=">>),
      Lit(<<"I", "n", "s", "e", "r", "t", " ", " ", "I", "n", "t", "o",
            " ", "t">>),
      Lit(<<"u", "p", "d", "a", "t", "e", " ", "t", "\n", "s", "e", "t",
            " ", "x">>) }

MarkupTokens ==
    { <<"o", "n">>,
      <<"x">>,
      <<"=">>,
      <<" ">>,
      <<"e", "v", "a", "l">>,
      <<"(">>,
      <<"j", "a", "v", "a", "s", "c", "r", "i", "p", "t">>,
      <<":">> }

\* Texts made of the pieces of the markup signatures, nothing between them.
MarkupTexts == {Lit(Joined(ws, <<>>)) : ws \in WordSeqs(MarkupTokens)}

\* The texts of test_safe_patterns, and others close to a signature.
SafeMarkupTexts ==
    { Lit(<<"T", "h", "i", "s", " ", "i", "s", " ", "a", " ", "n", "o",
            "r", "m", "a", "l", " ", "t", "e", "x", "t">>),
      Lit(<<"L", "e", "a", "r", "n", "i", "n", "g", " ", "J", "a", "v",
            "a", "S", "c", "r", "i", "p", "t", " ", "p", "r", "o", "g",
            "r", "a", "m", "m", "i", "n", "g">>),
      Lit(<<"o", "n", "c", "l", "i", "c", "k", " ", "i", "s", " ", "a",
            "n", " ", "e", "v", "e", "n", "t", " ", "h", "a", "n", "d",
            "l", "e", "r">>),
      Lit(<<"o", "n", " ", "=">>),
      Lit(<<"&", "l", "t", ";", "s", "c", "r", "i", "p", "t", "&", "g",
            "t", ";">>),
      Lit(<<"<", " ", "s", "c", "r", "i", "p", "t", ">">>),
      Lit(<<"e", "v", "a", "l", "u", "a", "t", "e", " ", "x">>),
      Lit(<<"e", "x", "p", "r", "e", "s", "s", "i", "o", "n">>) }

\* The texts of test_script_patterns, and others of the same shapes.
ScriptTexts ==
    { Lit(<<"<", "s", "c", "r", "i", "p", "t", ">", "a", "l", "e", "r",
            "t", "(", "'", "t", "e", "s", "t", "'", ")", "<", "/", "s",
            "c", "r", "i", "p", "t", ">">>),
      Lit(<<"j", "a", "v", "a", "s", "c", "r", "i", "p", "t", ":", "v",
            "o", "i", "d", "(", "0", ")">>),
      Lit(<<"<", "d", "i", "v", " ", "o", "n", "c", "l", "i", "c", "k",
            "=", "'", "m", "a", "l", "i", "c", "i", "o", "u", "s", "(",
            ")", "'", ">">>),
      Lit(<<"e", "v", "a", "l", "(", "s", "o", "m", "e", "t", "h", "i",
            "n", "g", ")">>),
      Lit(<<"<", "S", "C", "R", "I", "P", "T">>),
      Lit(<<"J", "a", "v", "a", "S", "c", "r", "i", "p", "t", ":">>),
      Lit(<<"O", "N", "_", "l", "o", "a", "d", "\t", " ", "=", "1">>),
      Lit(<<"E", "v", "a", "l", " ", "\n", "(">>),
      Lit(<<"w", "i", "d", "t", "h", ":", " ", "E", "x", "p", "r", "e",
            "s", "s", "i", "o", "n", " ", " ", "(", "1", ")">>) }

\* The values given where a text is expected: texts, None, and integers.
Values ==
    {PyText(t) : t \in {Q1, Empty, Rep(" ", 2), Script, Xs(MAX_MEMORY_SIZE + 1)}}
    \cup {PyNone, PyValue("int", 0), PyValue("int", 5)}

PureCall(tool, args) == [tool |-> tool, role |-> "", args |-> args]

PureCalls ==
    {PureCall("sanitize_text", <<t>>) : t \in ShortTexts \cup LongTexts}
    \cup {PureCall("validate_memory_content", <<t>>) :
             t \in ShortTexts \cup LongTexts}
    \cup {PureCall("validate_search_query", <<t>>) :
             t \in ShortTexts \cup LongQueries}
    \cup {PureCall("validate_limit", <<v>>) : v \in LimitValues}
    \cup {PureCall("validate_conversation_data", <<u, a>>) :
             u \in Sides, a \in Sides}
    \cup {PureCall("contains_sql_patterns", <<t>>) :
             t \in SqlSentences \cup SafeSqlTexts \cup InjectionTexts}
    \cup {PureCall("contains_suspicious_patterns", <<t>>) :
             t \in MarkupTexts \cup SafeMarkupTexts \cup ScriptTexts}
    \cup {PureCall("validate_memory_content(value)", <<v>>) : v \in Values}
    \cup {PureCall("validate_search_query(value)", <<v>>) : v \in Values}
    \cup {PureCall("validate_conversation_data(value)", <<u, a>>) :
             u \in Values, a \in Values}

\* What a finished call returned.
Returned(value) == [returned |-> value]
HasReturned == "returned" \in DOMAIN result

PureInit ==
    /\ chat_history = <<>>
    /\ now = 0
    /\ before = <<>>
    /\ added = <<>>
    /\ result = Result(<<>>, <<>>)
    /\ loop = Loop(<<>>)
    /\ call \in PureCalls

Apply(tool, value) ==
    /\ call.tool = tool
    /\ ~HasReturned
    /\ result' = Returned(value)
    /\ UNCHANGED <<chat_history, now, call, before, added, loop>>

Sanitize == Apply("sanitize_text", sanitize_text(call.args[1]))
ValidateMemoryContent ==
    Apply("validate_memory_content", validate_memory_content(call.args[1]))
ValidateSearchQuery ==
    Apply("validate_search_query", validate_search_query(call.args[1]))
ValidateLimit == Apply("validate_limit", validate_limit(call.args[1]))
ValidateConversationData ==
    Apply("validate_conversation_data",
          validate_conversation_data(call.args[1], call.args[2]))
ContainsSqlPatterns ==
    Apply("contains_sql_patterns", contains_sql_patterns(call.args[1]))
ContainsSuspiciousPatterns ==
    Apply("contains_suspicious_patterns",
          contains_suspicious_patterns(call.args[1]))
ValidateMemoryValue ==
    Apply("validate_memory_content(value)",
          validate_memory_content_any(call.args[1]))
ValidateQueryValue ==
    Apply("validate_search_query(value)",
          validate_search_query_any(call.args[1]))
ValidateConversationValues ==
    Apply("validate_conversation_data(value)",
          validate_conversation_data_any(call.args[1], call.args[2]))

PureNext ==
    \/ Sanitize
    \/ ValidateMemoryContent
    \/ ValidateSearchQuery
    \/ ValidateLimit
    \/ ValidateConversationData
    \/ ContainsSqlPatterns
    \/ ContainsSuspiciousPatterns
    \/ ValidateMemoryValue
    \/ ValidateQueryValue
    \/ ValidateConversationValues

PureSpec == PureInit /\ [][PureNext]_vars

\* --------------------------------------------------------- the event loop
\* The tools are coroutines run by one asyncio event loop: a call that has
\* been issued waits until the loop resumes it, and then runs, statement by
\* statement, until it awaits or returns.  In this specification MaxCalls
\* calls on one buffer are issued together.

MaxCalls == 3

\* A handler that awaits between its append and its scan.
AwaitAfterAppend == {"appended"}

\* The program points of a handler at which it awaits.  The bodies of
\* auto_save_message and clear_chat_history hold no await, and
\* mem0_client.add is an ordinary (blocking) call.
AwaitPoints == {}

\* The calls that can be issued.
LoopCalls ==
    { [tool |-> "auto_save_message", role |-> "user", args |-> <<Q1>>],
      [tool |-> "auto_save_message", role |-> "assistant", args |-> <<A1>>],
      [tool |-> "auto_save_message", role |-> "assistant", args |-> <<Q2>>],
      [tool |-> "clear_chat_history", role |-> "", args |-> <<>>] }

LoopInit ==
    /\ chat_history = <<>>
    /\ now = 0
    /\ call = NoCall
    /\ before = <<>>
    /\ added = <<>>
    /\ result = Result(<<>>, <<>>)
    /\ \E calls \in [1..MaxCalls -> LoopCalls] : loop = Loop(calls)

\* Who holds the loop after the call t has reached the program point pc.
Holder(t, pc) == IF pc = "done" \/ pc \in AwaitPoints THEN 0 ELSE t

\* The loop after the call t has moved to the program point pc.
Moved(t, pc) ==
    [loop EXCEPT !.pc[t] = pc, !.running = Holder(t, pc)]

\* The loop resumes a call that is waiting.
Resume(t) ==
    /\ loop.running = 0
    /\ loop.pc[t] # "done"
    /\ loop' = [loop EXCEPT !.running = t]
    /\ UNCHANGED <<chat_history, now, call, before, added, result>>

\* auto_save_message: chat_history.append(...)
LoopAppend(t) ==
    LET c == loop.calls[t]
        h == AppendMessage(chat_history, c.role, c.args[1], now)
    IN /\ loop.running = t
       /\ loop.pc[t] = "start"
       /\ c.tool = "auto_save_message"
       /\ chat_history' = h
       /\ loop' = [Moved(t, "appended") EXCEPT !.seen[t] = h]
       /\ UNCHANGED <<now, call, before, added, result>>

\* auto_save_message: the backward scan of the buffer as it is now.
LoopScan(t) ==
    LET c == loop.calls[t] IN
    /\ loop.running = t
    /\ loop.pc[t] = "appended"
    /\ loop' = [Moved(t, "scanned") EXCEPT
                   !.turn[t] = PairedTurn(chat_history, c.role, c.args[1])]
    /\ UNCHANGED <<chat_history, now, call, before, added, result>>

\* auto_save_message: mem0_client.add(conversation_turn, ...) and the return.
LoopForward(t) ==
    /\ loop.running = t
    /\ loop.pc[t] = "scanned"
    /\ IF loop.turn[t] = <<>>
       THEN added' = added
       ELSE \E raised \in BOOLEAN :
               added' = added \o Forward(loop.turn[t][1], raised)
    /\ loop' = Moved(t, "done")
    /\ UNCHANGED <<chat_history, now, call, before, result>>

\* clear_chat_history: chat_history.clear() and the return.
LoopClear(t) ==
    /\ loop.running = t
    /\ loop.pc[t] = "start"
    /\ loop.calls[t].tool = "clear_chat_history"
    /\ chat_history' = <<>>
    /\ loop' = Moved(t, "done")
    /\ UNCHANGED <<now, call, before, added, result>>

LoopNext ==
    \E t \in 1..MaxCalls :
        \/ Resume(t)
        \/ LoopAppend(t)
        \/ LoopScan(t)
        \/ LoopForward(t)
        \/ LoopClear(t)

LoopSpec == LoopInit /\ [][LoopNext]_vars

\* ------------------------------------------------------- the memory tools
\* The tools that save and search memories, as the two servers define them:
\* src/auto_memory.py (save_memory, save_conversation_turn, search_memories)
\* and src/main.py (main.save_memory, main.search_memories).  None of them
\* touches the chat history.

\* The texts given to main.save_memory.
ToolTexts ==
    MemoryTexts \cup
    { Q1, HelloWorld, OnClick, Rep(" ", 2), Rep(NUL, 2),
      Xs(MAX_MEMORY_SIZE), Xs(MAX_MEMORY_SIZE + 1), Rep("<", MAX_MEMORY_SIZE) }

\* The queries and the limits given to search_memories.
SearchQueries ==
    { Q1, Padded, Script, Empty, Rep(" ", 2), Injection, UnionSelect,
      Xs(MAX_QUERY_LENGTH), Xs(MAX_QUERY_LENGTH + 1) }
SearchLimits ==
    {PyValue("int", n) : n \in {-1, 0, 1, 5, MAX_SEARCH_LIMIT, MAX_SEARCH_LIMIT + 1}}
    \cup {PyValue("str", 10)}

\* What the pure functions return for these inputs, computed once.
ToolSanitized == [text \in ToolTexts \cup SearchQueries |-> sanitize_text(text)]
ToolChecked == [text \in ToolTexts |-> validate_memory_content(text)]
QueryChecked == [query \in SearchQueries |-> validate_search_query(query)]

\* One invocation of mem0_client.search(query, user_id=..., limit=...).
SearchCall(query, limit, raised) ==
    [ op |-> "search", query |-> query, user_id |-> DEFAULT_USER_ID,
      limit |-> limit, raised |-> raised ]

\* json.dumps(flattened_memories, indent=2) of a store that holds no memory.
NoMemories == Result(<<"[]">>, <<>>)

\* Messages that hold the text as it was given.
MemoryMessagesRaw(text) == <<[role |-> "user", content |-> PyStr(text)]>>

\* messages = [{"role": "user", "content": sanitized_text}]
MemoryMessages(text) ==
    <<[role |-> "user", content |-> PyStr(ToolSanitized[text])]>>

\* main.py: save_memory(ctx, text)
SaveMemoryMain ==
    \E text \in ToolTexts :
    LET v == ToolChecked[text] IN
    /\ call' = [tool |-> "main.save_memory", role |-> "", args |-> <<text>>]
    /\ before' = chat_history
    /\ UNCHANGED <<chat_history, now, loop>>
    /\ IF ~v.is_valid
       THEN /\ added' = <<>>
            /\ result' = Result(<<"Validation error: ">> \o v.error, <<>>)
       ELSE \E raised \in BOOLEAN :
            /\ added' = Forward(MemoryMessages(text), raised)
            /\ IF raised
               THEN \E e \in StoreErrors :
                      result' = Result(<<"Error saving memory: ",
                                         "Failed to save memory: ", e>>, <<>>)
               ELSE IF TextLen(text) > 100
               THEN result' = Result(<<"Successfully saved memory: ", "...">>,
                                     Prefix(text, 100))
               ELSE result' = Result(<<"Successfully saved memory: ">>, text)

\* auto_memory.py: search_memories(ctx, query, limit)
SearchMemories ==
    \E query \in SearchQueries, limit \in SearchLimits, raised \in BOOLEAN :
    /\ call' = [tool |-> "search_memories", role |-> "",
                args |-> <<query, limit>>]
    /\ before' = chat_history
    /\ UNCHANGED <<chat_history, now, loop>>
    /\ added' = <<SearchCall(PyStr(query), limit, raised)>>
    /\ IF raised
       THEN \E e \in StoreErrors :
              result' = Result(<<"Error searching memories: ", e>>, <<>>)
       ELSE result' = NoMemories

\* main.py: search_memories(ctx, query, limit)
SearchMemoriesMain ==
    \E query \in SearchQueries, limit \in SearchLimits :
    LET q == QueryChecked[query]
        l == validate_limit(limit)
    IN
    /\ call' = [tool |-> "main.search_memories", role |-> "",
                args |-> <<query, limit>>]
    /\ before' = chat_history
    /\ UNCHANGED <<chat_history, now, loop>>
    /\ IF ~q.is_valid
       THEN /\ added' = <<>>
            /\ result' = Result(<<"Validation error: ">> \o q.error, <<>>)
       ELSE IF ~l.is_valid
       THEN /\ added' = <<>>
            /\ result' = Result(<<"Validation error: ">> \o l.error, <<>>)
       ELSE \E raised \in BOOLEAN :
            /\ added' = <<SearchCall(PyStr(ToolSanitized[query]), limit, raised)>>
            /\ IF raised
               THEN \E e \in StoreErrors :
                      result' = Result(<<"Error searching memories: ",
                                         "Failed to search memories: ", e>>, <<>>)
               ELSE result' = NoMemories

ToolNext ==
    \/ SaveMemory
    \/ SaveMemoryMain
    \/ SaveConversationTurn
    \/ SearchMemories
    \/ SearchMemoriesMain

ToolSpec == Init /\ [][ToolNext]_vars

\* ------------------------------------------------------------ properties

\* The last call was auto_save_message with a role other than "conversation".
SingleCall == call.tool = "auto_save_message" /\ call.role # "conversation"
\* The last call was auto_save_message with the role "conversation".
ConversationCall == call.tool = "auto_save_message" /\ call.role = "conversation"

UserPositions(h) == {i \in 1..Len(h) : h[i].role = "user"}
Highest(S) == CHOOSE i \in S : \A j \in S : j <= i

SavedRoleMessage(role) ==
    Result(<<"Successfully saved ", role, " message to memory">>, <<>>)

\* C1: an assistant message appended to a buffer that holds a user message is
\* forwarded as one turn, made of the content of the nearest user message
\* before it (the highest index) and of its own content.
C1_PairsWithNearestUser ==
    (SingleCall /\ call.role = "assistant" /\ UserPositions(before) # {})
    => /\ Len(added) = 1
       /\ added[1].messages =
             Turn(PyStr(before[Highest(UserPositions(before))].content),
                  PyStr(call.args[1]))

\* user Q1, user Q2, then an assistant message: paired with Q2, not Q1.
C1_Witness ==
    /\ SingleCall /\ call.role = "assistant"
    /\ Len(before) = 2
    /\ before[1].role = "user" /\ before[1].content = Q1
    /\ before[2].role = "user" /\ before[2].content = Q2
    /\ Len(added) = 1
    /\ added[1].messages[1].content = PyStr(Q2)

\* C2: an assistant message appended to a buffer without any user message
\* forwards nothing, reports success and is appended.
C2_NoUserNoTurn ==
    (SingleCall /\ call.role = "assistant" /\ UserPositions(before) = {})
    => /\ added = <<>>
       /\ result = SavedRoleMessage("assistant")
       /\ Len(chat_history) = Len(before) + 1
       /\ chat_history[Len(chat_history)].role = "assistant"
       /\ chat_history[Len(chat_history)].content = call.args[1]

\* An assistant message after assistant and system messages only.
C2_Witness ==
    /\ SingleCall /\ call.role = "assistant"
    /\ Len(before) = 2 /\ UserPositions(before) = {}
    /\ before[1].role = "assistant"
    /\ added = <<>>
    /\ Len(chat_history) = 3

\* C3: pairing does not consume the user message: every assistant message
\* appended while the buffer holds a user message emits exactly one turn, the
\* user messages stay where they were, and this holds when an assistant
\* message already stands between that user message and the new one.
C3_PairingDoesNotConsume ==
    (SingleCall /\ call.role = "assistant" /\ UserPositions(before) # {})
    => /\ Len(added) = 1
       /\ UserPositions(chat_history) = UserPositions(before)
       /\ \A i \in UserPositions(before) : chat_history[i] = before[i]
       /\ added[1].messages[1].content =
             PyStr(chat_history[Highest(UserPositions(chat_history))].content)

\* user Q1, assistant A, then a second assistant message: paired with Q1 again.
C3_Witness ==
    /\ SingleCall /\ call.role = "assistant"
    /\ Len(before) = 2
    /\ before[1].role = "user" /\ before[1].content = Q1
    /\ before[2].role = "assistant"
    /\ Len(added) = 1
    /\ added[1].messages = Turn(PyStr(Q1), PyStr(call.args[1]))

\* C4: the buffer starts empty; a call of auto_save_message with a role other
\* than "conversation" appends exactly its message at the end, with the time
\* read by the call, and leaves the earlier entries as they were, whether or
\* not a turn was forwarded; clear_chat_history empties it; no other call
\* changes it.
C4_AppendOnly ==
    /\ call.tool = "none" => chat_history = <<>>
    /\ SingleCall =>
          /\ Len(chat_history) = Len(before) + 1
          /\ SubSeq(chat_history, 1, Len(before)) = before
          /\ chat_history[Len(chat_history)] =
                Message(call.role, call.args[1], now)
    /\ call.tool = "clear_chat_history" => chat_history = <<>>
    /\ (call.tool \notin {"none", "clear_chat_history"} /\ ~SingleCall)
          => chat_history = before

\* An append to a buffer of two messages whose pairing met a failing store.
C4_Witness ==
    /\ SingleCall
    /\ Len(before) = 2
    /\ Len(added) = 1 /\ added[1].raised
    /\ Len(chat_history) = 3

\* C5: auto_save_message with the role "conversation" leaves the buffer as it
\* was and forwards the turn made of the payload's "user" and "assistant"
\* fields, whatever the buffer holds.
C5_ConversationBypassesBuffer ==
    ConversationCall =>
       /\ chat_history = before
       /\ call.args[1] = PayloadBoth =>
             /\ Len(added) = 1
             /\ added[1].messages = Turn(PyStr(Q1), PyStr(A1))
       /\ call.args[1] = PayloadScript =>
             /\ Len(added) = 1
             /\ added[1].messages = Turn(PyStr(Script), PyStr(A1))

\* The payload (Q1, A1) given while the buffer ends with the user message Q2.
C5_Witness ==
    /\ ConversationCall
    /\ call.args[1] = PayloadBoth
    /\ Len(chat_history) = 2
    /\ chat_history[2].role = "user" /\ chat_history[2].content = Q2
    /\ Len(added) = 1
    /\ added[1].messages = Turn(PyStr(Q1), PyStr(A1))

\* The payloads that do not parse into a record with both fields.
MalformedPayloads ==
    {PayloadUserOnly, PayloadNoFields, PayloadList, PayloadBroken}

\* The results that report a failure.
ErrorHeads ==
    {"Error: Invalid conversation JSON format", "Error auto-saving message: ",
     "Error saving conversation turn: ", "Error saving memory: ",
     "Validation error: "}
Failed == result.parts # <<>> /\ result.parts[1] \in ErrorHeads

\* C6: a "conversation" payload that does not parse into a record with both a
\* "user" and an "assistant" field fails the call and forwards no turn.
C6_MalformedPayloadFails ==
    (ConversationCall /\ call.args[1] \in MalformedPayloads)
    => added = <<>> /\ Failed

\* C7: every malformed "conversation" payload yields the one result kept for
\* malformed payloads, and no other call yields that result.
MalformedOutcome == Result(<<"Error: Invalid conversation JSON format">>, <<>>)
C7_MalformedOutcomeDistinct ==
    /\ (ConversationCall /\ call.args[1] \in MalformedPayloads)
          => result = MalformedOutcome
    /\ result = MalformedOutcome
          => (ConversationCall /\ call.args[1] \in MalformedPayloads)

\* C8: every two-message turn handed to the store has a user content and an
\* assistant content that each pass validate_memory_content, and together
\* hold at most 20,000 characters.
VettedContent(c) == c.t = "str" /\ validate_memory_content(c.v).is_valid
C8_ForwardedTurnsAreValid ==
    \A i \in 1..Len(added) :
        Len(added[i].messages) = 2 =>
            /\ VettedContent(added[i].messages[1].content)
            /\ VettedContent(added[i].messages[2].content)
            /\ TextLen(added[i].messages[1].content.v)
                  + TextLen(added[i].messages[2].content.v)
               <= 2 * MAX_MEMORY_SIZE

\* C9: a message whose role is neither "assistant" nor "conversation" only
\* grows the buffer by that message: nothing is forwarded to the store.
C9_OtherRolesOnlyAppend ==
    (SingleCall /\ call.role # "assistant")
    => /\ added = <<>>
       /\ chat_history = Append(before, Message(call.role, call.args[1], now))
       /\ result = SavedRoleMessage(call.role)

\* A system message appended right after a user message.
C9_Witness ==
    /\ SingleCall /\ call.role = "system"
    /\ Len(before) >= 1 /\ before[Len(before)].role = "user"
    /\ added = <<>>
    /\ Len(chat_history) = Len(before) + 1

\* C10: a call invokes the store at most once; a turn is forwarded as the
\* two messages user, assistant in that order; and when the store raises,
\* the call returns an error result after that single invocation.
C10_NoRetry ==
    /\ Len(added) <= 1
    /\ \A i \in 1..Len(added) :
          /\ Len(added[i].messages) = 2 =>
                /\ added[i].messages[1].role = "user"
                /\ added[i].messages[2].role = "assistant"
          /\ added[i].raised =>
                /\ Failed
                /\ result.parts[Len(result.parts)] \in StoreErrors
    /\ (call.tool \in {"auto_save_message", "save_conversation_turn", "save_memory"}
          /\ ~Failed) => \A i \in 1..Len(added) : ~added[i].raised

\* A paired turn forwarded to a store that raised.
C10_Witness ==
    /\ SingleCall /\ call.role = "assistant"
    /\ Len(added) = 1 /\ added[1].raised
    /\ Len(added[1].messages) = 2
    /\ Failed

\* h is the beginning of g.
IsPrefix(h, g) == Len(h) <= Len(g) /\ SubSeq(g, 1, Len(h)) = h

\* C12: clear_chat_history empties the buffer and forwards nothing to the
\* store; no other call removes a message from the buffer; and from a clear
\* on, as long as no user message has been appended, an assistant message is
\* appended without a turn being forwarded, whatever user messages the
\* buffer held before the clear.
C12_ClearStartsAfresh ==
    [][ /\ call'.tool = "clear_chat_history"
           => (chat_history' = <<>> /\ added' = <<>>)
        /\ call'.tool # "clear_chat_history"
           => IsPrefix(chat_history, chat_history')
        /\ ( /\ call.tool = "clear_chat_history" \/ UserPositions(chat_history) = {}
             /\ call'.tool = "auto_save_message" /\ call'.role = "assistant" )
           => added' = <<>>
      ]_vars

\* A buffer that held a user message has been cleared.
C12_Witness ==
    /\ call.tool = "clear_chat_history"
    /\ UserPositions(before) # {}
    /\ chat_history = <<>>
    /\ added = <<>>

\* The orders in which n calls can be handled one after the other.
Orders(n) ==
    {o \in [1..n -> 1..n] : \A i, j \in 1..n : o[i] = o[j] => i = j}

\* The buffer and the turns forwarded when the calls are handled one after
\* the other, each to completion, in the given order.
RECURSIVE SerialRun(_, _, _, _)
SerialRun(calls, order, h, turns) ==
    IF order = <<>> THEN [chat_history |-> h, turns |-> turns]
    ELSE LET c == calls[order[1]] IN
         IF c.tool = "clear_chat_history"
         THEN SerialRun(calls, Tail(order), <<>>, turns)
         ELSE LET g == AppendMessage(h, c.role, c.args[1], now)
              IN SerialRun(calls, Tail(order), g,
                           turns \o PairedTurn(g, c.role, c.args[1]))

AllDone == \A t \in DOMAIN loop.calls : loop.pc[t] = "done"
Midway(t) == loop.pc[t] \in {"appended", "scanned"}

\* C11: calls issued together on one buffer are handled one at a time: a
\* call that has appended holds the event loop until it has scanned and
\* forwarded, no other call is midway, and the buffer it scans is the
\* buffer it left after its append; once all calls have returned, the buffer
\* and the turns forwarded are those of the calls handled in some serial
\* order.
C11_OneCallAtATime ==
    /\ \A t \in DOMAIN loop.calls :
          Midway(t) =>
             /\ loop.running = t
             /\ chat_history = loop.seen[t]
             /\ \A u \in DOMAIN loop.calls : Midway(u) => u = t
    /\ AllDone =>
          \E order \in Orders(Len(loop.calls)) :
             SerialRun(loop.calls, order, <<>>, <<>>) =
                [ chat_history |-> chat_history,
                  turns |-> [i \in 1..Len(added) |-> added[i].messages] ]

\* Three calls issued together, a clear among them, have all returned, and
\* a turn was forwarded.
C11_Witness ==
    /\ Len(loop.calls) >= 3
    /\ AllDone
    /\ \E t \in DOMAIN loop.calls : loop.calls[t].tool = "clear_chat_history"
    /\ Len(added) >= 1

\* The session that issued the call t, when two sessions share the server
\* context and issue the calls alternately.
Session(t) == 1 + (t % 2)

\* C29: with two sessions interleaving auto_save_message calls on one server
\* context, the turn an assistant message forms holds a user message that
\* the same session submitted, never one of the other session.
C29_PairsWithinSession ==
    \A t \in DOMAIN loop.calls :
       loop.turn[t] # <<>> =>
          \E u \in DOMAIN loop.calls :
             /\ Session(u) = Session(t)
             /\ loop.calls[u].tool = "auto_save_message"
             /\ loop.calls[u].role = "user"
             /\ PyStr(loop.calls[u].args[1]) = loop.turn[t][1][1].content

\* C27: when the store raises while auto_save_message forwards a paired
\* turn, the call returns an error and the buffer is as it was before the
\* call: the message of the failed call is not in it.
C27_UnchangedOnStoreError ==
    (SingleCall /\ added # <<>> /\ added[1].raised)
    => /\ Failed
       /\ chat_history = before

\* ------------------------------------------- properties of the validators

SanitizeCall == HasReturned /\ call.tool = "sanitize_text"

\* C13: sanitize_text is idempotent: sanitizing a text it returned, whatever
\* characters the text holds, returns that text again.
C13_SanitizeIdempotent ==
    SanitizeCall
    => Flat(sanitize_text(result.returned)) = Flat(result.returned)

\* A newline of the character sequence f that separates two paragraphs: there
\* is text (neither whitespace nor a null character) before and after it.
IsText(c) == ~IsSpace(c) /\ c # NUL
HasParagraphBreak(f) ==
    \E j \in 1..Len(f) :
        /\ f[j] = "\n"
        /\ \E i \in 1..(j - 1) : IsText(f[i])
        /\ \E k \in (j + 1)..Len(f) : IsText(f[k])

\* C14: sanitize_text leaves no run of spaces or tabs longer than one space,
\* keeps the newlines that separate paragraphs of the input (at most two in
\* a row) and returns a text without leading or trailing whitespace.
C14_KeepsParagraphBreaks ==
    SanitizeCall
    => LET in == Flat(call.args[1])
           out == Flat(result.returned)
       IN /\ \A i \in 1..Len(out) : out[i] # "\t"
          /\ \A i \in 1..(Len(out) - 1) : ~(out[i] = " " /\ out[i + 1] = " ")
          /\ \A i \in 1..(Len(out) - 2) :
                ~(out[i] = "\n" /\ out[i + 1] = "\n" /\ out[i + 2] = "\n")
          /\ out # <<>> => ~IsSpace(out[1]) /\ ~IsSpace(out[Len(out)])
          /\ HasParagraphBreak(in) => \E i \in 1..Len(out) : out[i] = "\n"

\* How many characters of f are c, and at how many places f holds the
\* character sequence lit.
Count(f, c) == Cardinality({i \in 1..Len(f) : f[i] = c})
CountSeq(f, lit) ==
    Cardinality({i \in 1..(Len(f) - Len(lit) + 1) :
                    \A k \in 1..Len(lit) : f[i + k - 1] = lit[k]})

\* C15: the text sanitize_text returns holds no null character and no '<' or
\* '>'; every '<' and '>' of the input is there as its entity, &lt; or &gt;.
C15_NoNullNoRawMarkup ==
    SanitizeCall
    => LET in == Flat(call.args[1])
           out == Flat(result.returned)
       IN /\ Count(out, NUL) = 0
          /\ Count(out, "<") = 0
          /\ Count(out, ">") = 0
          /\ CountSeq(out, <<"&", "l", "t", ";">>) = Count(in, "<")
          /\ CountSeq(out, <<"&", "g", "t", ";">>) = Count(in, ">")

\* sanitize_text("<\x00>") has returned "&lt;&gt;".
C15_Witness ==
    /\ SanitizeCall
    /\ Flat(call.args[1]) = <<"<", NUL, ">">>
    /\ Flat(result.returned) = <<"&", "l", "t", ";", "&", "g", "t", ";">>

MemoryContentCall == HasReturned /\ call.tool = "validate_memory_content"

\* C16: validate_memory_content returns the first reason that applies, in the
\* order emptiness (an empty or whitespace-only content, whatever its
\* length), length (more than 10,000 characters, suspicious or not),
\* patterns; a content that gives no reason is valid.  10,000 characters
\* are accepted, 10,001 rejected.
C16_MemoryContentOrder ==
    MemoryContentCall
    => LET content == call.args[1]
           returned == result.returned
       IN /\ IF TextLen(content) = 0 \/ IsBlank(content)
             THEN returned = Invalid(<<"Cannot save empty memory">>)
             ELSE IF TextLen(content) > 10000
             THEN returned =
                     Invalid(<<"Memory content too large (max 10000 characters)">>)
             ELSE IF contains_suspicious_patterns(content)
             THEN returned =
                     Invalid(<<"Memory content contains suspicious patterns">>)
             ELSE returned = Valid
          /\ content = Xs(10000) => returned.is_valid
          /\ content = Xs(10001) => ~returned.is_valid

\* A content of more than 10,000 characters that holds "<script" was
\* rejected as too large.
C16_Witness ==
    /\ MemoryContentCall
    /\ call.args[1] = Script \o Xs(10000)
    /\ contains_suspicious_patterns(call.args[1])
    /\ result.returned = Invalid(<<ERROR_MEMORY_TOO_LARGE>>)

SearchQueryCall == HasReturned /\ call.tool = "validate_search_query"

\* C17: validate_search_query rejects a blank query, then a query of more
\* than 500 characters, then a query with an SQL pattern, and accepts every
\* other query: a query with a markup pattern such as "<script" is accepted.
C17_SearchQueryOrder ==
    SearchQueryCall
    => LET query == call.args[1]
           returned == result.returned
       IN /\ IF TextLen(query) = 0 \/ IsBlank(query)
             THEN returned = Invalid(<<"Search query cannot be empty">>)
             ELSE IF TextLen(query) > 500
             THEN returned =
                     Invalid(<<"Query too long (maximum 500 characters)">>)
             ELSE IF contains_sql_patterns(query)
             THEN returned = Invalid(<<"Query contains invalid characters">>)
             ELSE returned = Valid
          /\ ( /\ ~IsBlank(query)
               /\ TextLen(query) <= 500
               /\ contains_suspicious_patterns(query)
               /\ ~contains_sql_patterns(query) )
             => returned = Valid

\* The query "<script>", which the markup patterns flag, was accepted.
C17_Witness ==
    /\ SearchQueryCall
    /\ call.args[1] = Script
    /\ contains_suspicious_patterns(Script)
    /\ result.returned = Valid

LimitCall == HasReturned /\ call.tool = "validate_limit"

\* C18: validate_limit accepts an integer n exactly when 1 <= n <= 100; it
\* rejects 0 and the negative integers with "at least 1", 101 and above
\* with "cannot exceed 100", and a value that is no integer with "must be an
\* integer".
C18_LimitRange ==
    LimitCall
    => LET limit == call.args[1]
           returned == result.returned
       IN /\ limit.t = "int" =>
                /\ returned.is_valid <=> (1 <= limit.v /\ limit.v <= 100)
                /\ limit.v <= 0 =>
                      returned = Invalid(<<"Limit must be at least 1">>)
                /\ limit.v >= 101 =>
                      returned = Invalid(<<"Limit cannot exceed 100">>)
                /\ returned.is_valid => returned = Valid
          /\ limit.t \in {"str", "float"} =>
                returned = Invalid(<<"Limit must be an integer">>)

\* The limit 100 was accepted.
C18_Witness ==
    /\ LimitCall
    /\ call.args[1] = PyValue("int", 100)
    /\ result.returned = Valid

ConversationDataCall ==
    HasReturned /\ call.tool = "validate_conversation_data"

\* C19: validate_conversation_data validates the user message first: when it
\* fails, the error is "User message: " and its error, whatever the
\* assistant message is; when only the assistant message fails, the error
\* is "Assistant message: " and its error.
C19_UserSideFirst ==
    ConversationDataCall
    => LET u == validate_memory_content(call.args[1])
           a == validate_memory_content(call.args[2])
       IN /\ ~u.is_valid =>
                result.returned = Invalid(<<"User message: ">> \o u.error)
          /\ (u.is_valid /\ ~a.is_valid) =>
                result.returned =
                   Invalid(<<"Assistant message: ">> \o a.error)

\* Both messages were invalid, for different reasons, and the error is the
\* user message's.
C19_Witness ==
    /\ ConversationDataCall
    /\ call.args = <<Empty, Script>>
    /\ ~validate_memory_content(Script).is_valid
    /\ result.returned =
          Invalid(<<"User message: ", "Cannot save empty memory">>)

\* C20: validate_conversation_data rejects, with the conversation's "too
\* large" error, a pair whose sides are each valid on their own when one side
\* has the 10,000 characters a message may have and the other at least one.
C20_CombinedSizeGuard ==
    ( /\ ConversationDataCall
      /\ validate_memory_content(call.args[1]).is_valid
      /\ validate_memory_content(call.args[2]).is_valid
      /\ \/ TextLen(call.args[1]) = 10000 /\ TextLen(call.args[2]) >= 1
         \/ TextLen(call.args[2]) = 10000 /\ TextLen(call.args[1]) >= 1 )
    => result.returned = Invalid(<<"Conversation too large to save">>)

PatternCall(tool) == HasReturned /\ call.tool = tool

\* The words of a character sequence: the runs between its spaces.
RECURSIVE SplitWords(_, _)
SplitWords(f, word) ==
    IF f = <<>> THEN <<word>>
    ELSE IF f[1] = " " THEN <<word>> \o SplitWords(Tail(f), <<>>)
    ELSE SplitWords(Tail(f), Append(word, Lower(f[1])))

IsLetter(c) == \E i \in 1..26 : LowerCase[i] = Lower(c)

\* A sentence of plain words: letters, and single spaces between the words.
PlainSentence(f) ==
    /\ f # <<>>
    /\ \A i \in 1..Len(f) : IsLetter(f[i]) \/ f[i] = " "
    /\ f[1] # " " /\ f[Len(f)] # " "
    /\ \A i \in 1..(Len(f) - 1) : ~(f[i] = " " /\ f[i + 1] = " ")

EndsWith(w, p) == Len(w) >= Len(p) /\ SubSeq(w, Len(w) - Len(p) + 1, Len(w)) = p
StartsWith(w, p) == Len(w) >= Len(p) /\ SubSeq(w, 1, Len(p)) = p

\* The words have the shape of a statement: a keyword and its clause
\* (UNION SELECT, INSERT INTO, UPDATE <word> SET).
HasStatementShape(ws) ==
    \/ \E i \in 1..(Len(ws) - 1) :
          \/ EndsWith(ws[i], <<"u", "n", "i", "o", "n">>)
             /\ StartsWith(ws[i + 1], <<"s", "e", "l", "e", "c", "t">>)
          \/ EndsWith(ws[i], <<"i", "n", "s", "e", "r", "t">>)
             /\ StartsWith(ws[i + 1], <<"i", "n", "t", "o">>)
    \/ \E i \in 1..(Len(ws) - 2) :
          /\ EndsWith(ws[i], <<"u", "p", "d", "a", "t", "e">>)
          /\ StartsWith(ws[i + 2], <<"s", "e", "t">>)

\* C21: contains_sql_patterns does not flag a sentence for the bare words
\* "select", "create", "update" or "insert": a sentence of plain words is
\* flagged only when the words have the shape of a statement, the sentences
\* of the tests' safe list are not flagged, and the injection strings are.
C21_BareKeywordsNotFlagged ==
    PatternCall("contains_sql_patterns")
    => LET f == Flat(call.args[1]) IN
       /\ call.args[1] \in SafeSqlTexts => ~result.returned
       /\ call.args[1] \in InjectionTexts => result.returned
       /\ PlainSentence(f) =>
             (result.returned <=> HasStatementShape(SplitWords(f, <<>>)))

\* "Update me on the progress" was not flagged.
C21_Witness ==
    /\ PatternCall("contains_sql_patterns")
    /\ Flat(call.args[1]) =
          <<"U", "p", "d", "a", "t", "e", " ", "m", "e", " ", "o", "n",
            " ", "t", "h", "e", " ", "p", "r", "o", "g", "r", "e", "s",
            "s">>
    /\ HasLit(Flat(call.args[1]), <<"u", "p", "d", "a", "t", "e">>)
    /\ result.returned = FALSE

\* The case-folded character sequence g holds p at position i.
OccursAt(g, i, p) == i + Len(p) - 1 <= Len(g) /\ SubSeq(g, i, i + Len(p) - 1) = p
Occurs(g, p) == \E i \in 1..Len(g) : OccursAt(g, i, p)
\* g holds p, then whitespace or nothing, then the character c.
OccursBefore(g, p, c) ==
    \E i, m \in 1..Len(g) :
        /\ OccursAt(g, i, p)
        /\ m >= i + Len(p)
        /\ g[m] = c
        /\ \A k \in (i + Len(p))..(m - 1) : IsSpace(g[k])
\* g holds "on", one or more word characters, whitespace or nothing, "=".
OccursAssignment(g) ==
    \E i, j, m \in 1..Len(g) :
        /\ OccursAt(g, i, <<"o", "n">>)
        /\ i + 2 <= j /\ j < m
        /\ \A k \in (i + 2)..j : IsWord(g[k])
        /\ \A k \in (j + 1)..(m - 1) : IsSpace(g[k])
        /\ g[m] = "="

TextValidators ==
    {"validate_memory_content", "validate_search_query", "validate_limit",
     "validate_conversation_data"}
ValueValidators ==
    {"validate_memory_content(value)", "validate_search_query(value)",
     "validate_conversation_data(value)"}
IsTextOrNone(value) == value.t \in {"str", "NoneType"}

\* A result (True, None) or (False, reason) with a reason that is not empty.
WellFormedResult(r) ==
    /\ ~HasRaised(r)
    /\ r.is_valid <=> r.error = <<None>>
    /\ ~r.is_valid =>
          /\ r.error # <<>>
          /\ \A i \in 1..Len(r.error) : r.error[i] \notin {"", None}

\* C23: for every text, for an absent content (None) and for every limit
\* value, the validators raise nothing and return (True, None) or (False, a
\* reason that is not empty); the result is valid exactly when it has no
\* error.
C23_FailuresAreValues ==
    /\ (HasReturned /\ call.tool \in TextValidators)
          => WellFormedResult(result.returned)
    /\ ( /\ HasReturned
         /\ call.tool \in ValueValidators
         /\ \A i \in 1..Len(call.args) : IsTextOrNone(call.args[i]) )
          => WellFormedResult(result.returned)

\* validate_conversation_data("Q1", None) has returned the assistant side's
\* error.
C23_Witness ==
    /\ HasReturned
    /\ call.tool = "validate_conversation_data(value)"
    /\ call.args = <<PyText(Q1), PyNone>>
    /\ result.returned =
          Invalid(<<"Assistant message: ", ERROR_EMPTY_MEMORY>>)

\* The text with a space in the place of every null character.
NullsAsSpaces(t) ==
    [i \in 1..Len(t) |->
        Blk([k \in 1..Len(t[i].s) |-> IF t[i].s[k] = NUL THEN " " ELSE t[i].s[k]],
            t[i].n)]

\* C24: sanitize_text treats a null character as a word separator: the runs
\* of text on its two sides stay apart, a single space between them, so that
\* sanitize_text("Hello\x00World") is "Hello World".
C24_NullSeparatesWords ==
    SanitizeCall
    => /\ Flat(result.returned) =
             Flat(sanitize_text(NullsAsSpaces(call.args[1])))
       /\ call.args[1] = HelloWorld
             => Flat(result.returned) =
                   <<"H", "e", "l", "l", "o", " ", "W", "o", "r", "l", "d">>

\* C28: for every text validate_memory_content accepts, sanitize_text of the
\* text is not empty and has at most 10,000 characters.
C28_SanitizedWithinBounds ==
    (SanitizeCall /\ validate_memory_content(call.args[1]).is_valid)
    => /\ TextLen(result.returned) >= 1
       /\ TextLen(result.returned) <= 10000

\* ------------------------------------------- properties of the memory tools

SaveMemoryCall == call.tool \in {"save_memory", "main.save_memory"}

\* C25: save_memory, in both servers, and save_conversation_turn invoke the
\* store only when the validation of the raw input has accepted it, and hand
\* it sanitize_text of each raw content; when the validation rejects, the
\* call returns "Validation error: " and the reason, and the store is not
\* invoked.
C25_ValidateThenSanitize ==
    /\ SaveMemoryCall =>
          LET text == call.args[1]
              v == validate_memory_content(text)
          IN IF v.is_valid
             THEN /\ Len(added) = 1
                  /\ added[1].messages =
                        <<[role |-> "user", content |-> PyStr(sanitize_text(text))]>>
             ELSE /\ added = <<>>
                  /\ result = Result(<<"Validation error: ">> \o v.error, <<>>)
    /\ call.tool = "save_conversation_turn" =>
          LET v == validate_conversation_data(call.args[1], call.args[2])
          IN IF v.is_valid
             THEN /\ Len(added) = 1
                  /\ added[1].messages =
                        Turn(PyStr(sanitize_text(call.args[1])),
                             PyStr(sanitize_text(call.args[2])))
             ELSE /\ added = <<>>
                  /\ result = Result(<<"Validation error: ">> \o v.error, <<>>)

\* main.py's save_memory was given a text that sanitize_text changes, and
\* the store was handed the sanitized text.
C25_Witness ==
    /\ call.tool = "main.save_memory"
    /\ call.args = <<Padded>>
    /\ Len(added) = 1
    /\ Flat(added[1].messages[1].content.v) # Flat(Padded)
    /\ Flat(added[1].messages[1].content.v) = Flat(sanitize_text(Padded))

SearchCallMade == call.tool \in {"search_memories", "main.search_memories"}

\* C26: search_memories, in both servers, searches the store only when
\* validate_search_query(query) and validate_limit(limit) both accept;
\* otherwise it returns a validation error, the query's when both are
\* invalid, and the store is not searched.
C26_SearchValidatesFirst ==
    SearchCallMade =>
       LET q == validate_search_query(call.args[1])
           l == validate_limit(call.args[2])
       IN /\ added # <<>> => (q.is_valid /\ l.is_valid)
          /\ ~q.is_valid =>
                /\ added = <<>>
                /\ result = Result(<<"Validation error: ">> \o q.error, <<>>)
          /\ (q.is_valid /\ ~l.is_valid) =>
                /\ added = <<>>
                /\ result = Result(<<"Validation error: ">> \o l.error, <<>>)

====
